---- MODULE Spec2Model ----
(***************************************************************************)
(* Verification engine of the PillarScatter operator check                 *)
(* (check.py: load_coords_file, compare_arrays, main; check_visual.py:     *)
(* FeatureVisualizer.load_feature_map).                                    *)
(*                                                                         *)
(* The deployment grid is 1 x 720 x 720 x 64 and the debug window is 9282  *)
(* pillars; the model keeps the code's layouts, index arithmetic and       *)
(* control flow and scales the extents to 1 x H x W x C and the window to  *)
(* DEBUG_MAX_PILLARS records.  Element values are a few finite float16     *)
(* numbers and NaN, tolerances are rationals <<n, d>>, and every           *)
(* comparison is exact integer arithmetic.                                 *)
(***************************************************************************)
EXTENDS Integers, Sequences, FiniteSets, TLC

\* ------------------------------------------------------------------ extents
\* check.py:335-344 / check_visual.py:26-28 (720, 720, 64), scaled.
FEATURE_H == 2
FEATURE_W == 2
FEATURE_SIZE == 2
\* check.py:14 (9282), scaled.
DEBUG_MAX_PILLARS == 2
\* check.py:13
DEBUG_MODE == TRUE
\* The number of mismatch lines that compare_arrays prints at most (10 in
\* check.py:247), scaled like the extents.
MaxShown == 2

\* ------------------------------------------------------------------ bounds
\* Longest coordinate table handed to compare_arrays.
MaxCoords == 3
\* Longest coordinate table stored in the driver's coordinate file.
MaxFileCoords == 1

\* ------------------------------------------------------------------ values
\* tolerance=1e-5, the default of compare_arrays (check.py:135), as <<n, d>>.
DefaultTolerance == <<1, 100000>>
Tolerances == {<<0, 1>>, DefaultTolerance, <<1, 4>>, <<1, 2>>}

\* An element value v stands for the number v / ValueScale: the unit is half
\* the default tolerance, so 1 is a difference the default tolerance accepts
\* and 4 one it rejects, and Two and Three are the numbers 2.0 and 3.0.
ValueScale == 2 * DefaultTolerance[2]
Two == 2 * ValueScale
Three == 3 * ValueScale
NaN == 4 * ValueScale
FiniteVals == {0, 1, 4, 0 - 4, Two, Three, 0 - Two, 0 - Three}
Vals == FiniteVals \cup {NaN}
IsNaN(v) == v = NaN

Abs(v) == IF v < 0 THEN 0 - v ELSE v

\* ------------------------------------------------------------------ numpy
\* An ndarray: its shape and its elements in row-major (C) order.
NdArray(shape, data) == [shape |-> shape, data |-> data]

RECURSIVE Prod(_)
Prod(s) == IF s = <<>> THEN 1 ELSE Head(s) * Prod(Tail(s))

\* 0-based multi-index <<i1,i2,i3,i4>> of a 4-D shape -> 1-based flat position.
Ravel4(shape, idx) ==
    ((idx[1] * shape[2] + idx[2]) * shape[3] + idx[3]) * shape[4] + idx[4] + 1

\* 0-based flat offset -> 0-based multi-index of a 4-D shape.
Unravel4(shape, off) ==
    << off \div (shape[2] * shape[3] * shape[4]),
       (off \div (shape[3] * shape[4])) % shape[2],
       (off \div shape[4]) % shape[3],
       off % shape[4] >>

\* ndarray.reshape on a flat buffer whose length fits the shape.
reshape(data, shape) == NdArray(shape, data)

\* A transpose that permutes the shape and leaves the elements in place.
transposeShapeOnly(arr, axes) ==
    NdArray([k \in 1..4 |-> arr.shape[axes[k]]], arr.data)

\* ndarray.transpose(axes) of a 4-D array; axes are 1-based here, so numpy's
\* (0, 2, 3, 1) is <<1, 3, 4, 2>>.  Element j of the result is element i of
\* the operand with i[axes[k]] = j[k].
transpose(arr, axes) ==
    LET newshape == [k \in 1..4 |-> arr.shape[axes[k]]]
        src(j) == [k \in 1..4 |-> j[CHOOSE m \in 1..4 : axes[m] = k]]
    IN  NdArray(newshape,
                [f \in 1..Len(arr.data) |->
                    arr.data[Ravel4(arr.shape, src(Unravel4(newshape, f - 1)))]])

\* arr[0, y, x, :] of a 4-D array: the channel vector of one cell.
CellVector(arr, y, x) ==
    [c \in 1..arr.shape[4] |-> arr.data[Ravel4(arr.shape, <<0, y, x, c - 1>>)]]

\* A bound whose relative term is taken off the absolute one.
ToleranceBoundRelativeSubtracted(b, rtol, atol) ==
    atol[1] * (ValueScale \div atol[2]) - (rtol[1] * Abs(b)) \div rtol[2]

\* atol + rtol*|b| in units of 1/ValueScale, with the relative term rounded
\* down: atol is a whole number of units (its denominator divides
\* ValueScale), and for integers d <= n/m exactly when d <= n \div m.
ToleranceBound(b, rtol, atol) ==
    atol[1] * (ValueScale \div atol[2]) + (rtol[1] * Abs(b)) \div rtol[2]

\* A closeness test whose relative term scales with the first operand.
iscloseRelativeToFirst(a, b, rtol, atol) ==
    /\ ~IsNaN(a)
    /\ ~IsNaN(b)
    /\ Abs(a - b) <= ToleranceBound(a, rtol, atol)

\* np.isclose on one element pair: |a-b| <= atol + rtol*|b|, NaN never close.
isclose(a, b, rtol, atol) ==
    /\ ~IsNaN(a)
    /\ ~IsNaN(b)
    /\ Abs(a - b) <= ToleranceBound(b, rtol, atol)

\* np.allclose on two equally long element sequences.
allclose(x, y, rtol, atol) ==
    \A i \in 1..Len(x) : isclose(x[i], y[i], rtol, atol)

\* np.array_equal: same shape, every element pair equal (NaN equals nothing).
array_equal(a1, a2) ==
    /\ a1.shape = a2.shape
    /\ \A i \in 1..Len(a1.data) :
          ~IsNaN(a1.data[i]) /\ ~IsNaN(a2.data[i]) /\ a1.data[i] = a2.data[i]

\* ------------------------------------------------------------------ check.py
\* Optional values: None is a record with isNone set.
None == [isNone |-> TRUE, rows |-> <<>>]
Some(rows) == [isNone |-> FALSE, rows |-> rows]

Min(a, b) == IF a < b THEN a ELSE b

\* A slice that keeps one element more than seq[:n].
PrefixOneMore(seq, n) == SubSeq(seq, 1, Min(Len(seq), n + 1))

\* seq[:n]
Prefix(seq, n) == SubSeq(seq, 1, Min(Len(seq), n))

\* The condition of check.py:109 and check.py:209 on one record
\* <<batch_id, x, y, reserved>>: shape[1] is the height, shape[2] the width
\* (0-based in the code, 1-based here).
InGrid(rec, arr) ==
    rec[1] = 0 /\ rec[2] < arr.shape[3] /\ rec[3] < arr.shape[2]

\* The loop of analyze_debug_output over coords[:DEBUG_MAX_PILLARS]:
\* <<expected_positions, actual_positions>>.
RECURSIVE PositionLoop(_, _, _)
PositionLoop(output_data, recs, acc) ==
    IF recs = <<>> THEN acc
    ELSE LET rec == Head(recs)
             position_values == CellVector(output_data, rec[3], rec[2])
             hit == \E c \in 1..Len(position_values) : position_values[c] # 0
         IN  PositionLoop(output_data, Tail(recs),
                 IF InGrid(rec, output_data)
                 THEN <<acc[1] + 1, acc[2] + (IF hit THEN 1 ELSE 0)>>
                 ELSE acc)

CountNonzero(data) == Cardinality({i \in 1..Len(data) : data[i] # 0})

\* analyze_debug_output: the 4-way unpacking of output_data.shape raises
\* ValueError on anything but a 4-D array.
analyze_debug_output(output_data, coords) ==
    IF Len(output_data.shape) # 4
    THEN [raised |-> TRUE, nonzero_elements |-> CountNonzero(output_data.data),
          positions |-> <<0, 0>>]
    ELSE [raised |-> FALSE, nonzero_elements |-> CountNonzero(output_data.data),
          positions |-> IF coords.isNone THEN <<0, 0>>
                        ELSE PositionLoop(output_data,
                                 Prefix(coords.rows, DEBUG_MAX_PILLARS), <<0, 0>>)]

\* A cell test that asks for equal channel vectors and ignores the tolerance.
CellMatchesExact(pos1, pos2, tolerance) ==
    \A c \in 1..Len(pos1) : ~IsNaN(pos1[c]) /\ pos1[c] = pos2[c]

\* check.py:214: the channel vectors of one cell match.
CellMatches(pos1, pos2, tolerance) ==
    allclose(pos1, pos2, tolerance, tolerance)

\* The loop of compare_arrays over valid_coords (check.py:208-220):
\* <<total_checked, match_count>>.
RECURSIVE RestrictedLoop(_, _, _, _, _)
RestrictedLoop(arr1, arr2, tolerance, recs, acc) ==
    IF recs = <<>> THEN acc
    ELSE LET rec == Head(recs)
             pos1 == CellVector(arr1, rec[3], rec[2])
             pos2 == CellVector(arr2, rec[3], rec[2])
         IN  RestrictedLoop(arr1, arr2, tolerance, Tail(recs),
                 IF InGrid(rec, arr1)
                 THEN <<acc[1] + 1,
                        acc[2] + (IF CellMatches(pos1, pos2, tolerance)
                                  THEN 1 ELSE 0)>>
                 ELSE acc)

\* diff_mask = diff > tolerance; diff_count = np.sum(diff_mask).  A NaN
\* difference compares False.
DiffExceeds(a, b, tolerance) ==
    ~IsNaN(a) /\ ~IsNaN(b) /\ Abs(a - b) > (tolerance[1] * ValueScale) \div tolerance[2]

DiffCount(arr1, arr2, tolerance) ==
    Cardinality({i \in 1..Len(arr1.data) :
                    DiffExceeds(arr1.data[i], arr2.data[i], tolerance)})

\* diff = np.abs(arr1 - arr2) (check.py:185), element by element; a
\* difference is never negative, and NaNDiff stands for a NaN difference.
NaNDiff == 0 - 1
AbsDiff(a, b) == IF IsNaN(a) \/ IsNaN(b) THEN NaNDiff ELSE Abs(a - b)
HasNaNDiff(arr1, arr2) ==
    \E i \in 1..Len(arr1.data) : AbsDiff(arr1.data[i], arr2.data[i]) = NaNDiff

\* max_diff = np.max(diff): NaN when any difference is.
MaxDiff(arr1, arr2) ==
    IF HasNaNDiff(arr1, arr2) THEN NaNDiff
    ELSE IF arr1.data = <<>> THEN 0
    ELSE CHOOSE m \in {AbsDiff(arr1.data[i], arr2.data[i]) : i \in 1..Len(arr1.data)} :
             \A i \in 1..Len(arr1.data) : AbsDiff(arr1.data[i], arr2.data[i]) <= m

RECURSIVE SumDiff(_, _, _)
SumDiff(arr1, arr2, n) ==
    IF n = 0 THEN 0
    ELSE AbsDiff(arr1.data[n], arr2.data[n]) + SumDiff(arr1, arr2, n - 1)

\* mean_diff = np.mean(diff), kept as the sum of the differences (the mean
\* times arr1.size): NaN when any difference is.
MeanDiff(arr1, arr2) ==
    IF HasNaNDiff(arr1, arr2) THEN NaNDiff
    ELSE SumDiff(arr1, arr2, Len(arr1.data))

\* diff_indices = np.where(diff_mask): the flat positions (1-based) of the
\* elements of diff_mask that are True, in row-major order.
RECURSIVE DiffIndices(_, _, _, _)
DiffIndices(arr1, arr2, tolerance, from) ==
    IF from > Len(arr1.data) THEN <<>>
    ELSE (IF DiffExceeds(arr1.data[from], arr2.data[from], tolerance)
          THEN <<from>> ELSE <<>>)
         \o DiffIndices(arr1, arr2, tolerance, from + 1)

\* The lines printed by the loop of check.py:250-252: for each of the first
\* min(MaxShown, diff_count) positions, <<idx, arr1[idx], arr2[idx], diff[idx]>>.
ShownDiffs(arr1, arr2, tolerance) ==
    LET diff_indices == DiffIndices(arr1, arr2, tolerance, 1)
        show_count == Min(MaxShown, Len(diff_indices))
    IN  [i \in 1..show_count |->
            LET f == diff_indices[i]
            IN  <<Unravel4(arr1.shape, f - 1), arr1.data[f], arr2.data[f],
                  AbsDiff(arr1.data[f], arr2.data[f])>>]

\* What one call of compare_arrays did and returned.  ret is the returned
\* bool; raised tells that the call ended in an exception instead.  analyzed,
\* stats, restricted and full tell which parts of the body ran: the debug
\* analysis (163-169), the statistics and differences (171-198), the
\* coordinate loop (201-226), the exact/tolerance checks (228-254).
\* max_diff and mean_diff are the printed difference statistics, diff_count
\* and shown the printed mismatch count and mismatch lines.
NoResult ==
    [called |-> FALSE, raised |-> FALSE, ret |-> FALSE, shape_match |-> FALSE,
     analyzed |-> FALSE, stats |-> FALSE,
     restricted |-> FALSE, total_checked |-> 0, match_count |-> 0,
     max_diff |-> 0, mean_diff |-> 0,
     full |-> FALSE, exact |-> FALSE, tolerant |-> FALSE, diff_count |-> 0,
     shown |-> <<>>]

\* A shape failure reported only after the statistics were computed.
ShapeMismatchAfterStatistics(arr1, arr2) ==
    [NoResult EXCEPT !.called = TRUE, !.stats = TRUE, !.ret = FALSE]

\* check.py:155-159: the shapes differ.
ShapeMismatch(arr1, arr2) ==
    [NoResult EXCEPT !.called = TRUE, !.ret = FALSE]

\* A restricted pass that also asks the whole arrays to be close.
RestrictedPassNeedsFull(arr1, arr2, tolerance, counts) ==
    counts[2] = counts[1] /\ allclose(arr1.data, arr2.data, tolerance, tolerance)

\* check.py:224: the coordinate loop decides the call.
RestrictedPass(arr1, arr2, tolerance, counts) ==
    counts[2] = counts[1]

compare_arrays(arr1, arr2, tolerance, debug_coords) ==
    IF arr1.shape # arr2.shape
    THEN ShapeMismatch(arr1, arr2)
    ELSE
    IF DEBUG_MODE /\ analyze_debug_output(arr1, debug_coords).raised
    THEN [NoResult EXCEPT !.called = TRUE, !.shape_match = TRUE, !.raised = TRUE]
    ELSE
    LET counts == IF DEBUG_MODE /\ ~debug_coords.isNone
                  THEN RestrictedLoop(arr1, arr2, tolerance,
                           Prefix(debug_coords.rows, DEBUG_MAX_PILLARS), <<0, 0>>)
                  ELSE <<0, 0>>
        sofar == [NoResult EXCEPT !.called = TRUE, !.shape_match = TRUE,
                                  !.analyzed = DEBUG_MODE, !.stats = TRUE,
                                  !.max_diff = MaxDiff(arr1, arr2),
                                  !.mean_diff = MeanDiff(arr1, arr2),
                                  !.restricted = DEBUG_MODE /\ ~debug_coords.isNone,
                                  !.total_checked = counts[1],
                                  !.match_count = counts[2]]
    IN
    IF sofar.restricted /\ RestrictedPass(arr1, arr2, tolerance, counts)
    THEN [sofar EXCEPT !.ret = TRUE]
    ELSE
    IF array_equal(arr1, arr2)
    THEN [sofar EXCEPT !.full = TRUE, !.exact = TRUE, !.ret = TRUE]
    ELSE
    IF allclose(arr1.data, arr2.data, tolerance, tolerance)
    THEN [sofar EXCEPT !.full = TRUE, !.tolerant = TRUE, !.ret = TRUE]
    ELSE [sofar EXCEPT !.full = TRUE, !.ret = FALSE,
                       !.diff_count = DiffCount(arr1, arr2, tolerance),
                       !.shown = ShownDiffs(arr1, arr2, tolerance)]

\* ------------------------------------------------------------------ state
VARIABLES
    pc,             \* position of the running function
    output_file,    \* main: the operator's output file (channel-last)
    correct_file,   \* main: the reference file (channel-first)
    coords_file,    \* main: the coordinate file
    coords_data,    \* main: load_coords_file's return value
    output_data,    \* main: the loaded output array
    correct_data,   \* main: the loaded reference array
    exit_code,      \* main: the value returned to exit()
    arr1,           \* compare_arrays: first argument
    arr2,           \* compare_arrays: second argument
    tolerance,      \* compare_arrays: tolerance argument
    debug_coords,   \* compare_arrays: debug_coords argument
    result,         \* what the call of compare_arrays did and returned
    feature_file,   \* load_feature_map: the file named by filename
    format_type,    \* load_feature_map: 'NHWC' or 'NCHW'
    features        \* load_feature_map: what the call returned

vars == <<pc, output_file, correct_file, coords_file, coords_data, output_data,
          correct_data, exit_code, arr1, arr2, tolerance, debug_coords, result,
          feature_file, format_type, features>>

mainVars == <<output_file, correct_file, coords_file, coords_data, output_data,
              correct_data, exit_code>>
compareVars == <<arr1, arr2, tolerance, debug_coords>>
loadVars == <<feature_file, format_type, features>>

\* ------------------------------------------------------------------ inputs
GridShape == <<1, FEATURE_H, FEATURE_W, FEATURE_SIZE>>
NchwShape == <<1, FEATURE_SIZE, FEATURE_H, FEATURE_W>>
NumElements == 1 * FEATURE_H * FEATURE_W * FEATURE_SIZE

Zeros(n) == [i \in 1..n |-> 0]
\* A buffer that is zero except for value v at position p.
OneHot(n, p, v) == [i \in 1..n |-> IF i = p THEN v ELSE 0]
SparseBuffers(n, vals) == {OneHot(n, p, v) : p \in 1..n, v \in vals \cup {0}}

NoArray == NdArray(<<>>, <<>>)
NoFile == [exists |-> FALSE, data |-> <<>>]
File(d) == [exists |-> TRUE, data |-> d]
NoFeatures == [raised |-> "", array |-> NoArray]

\* Coordinate records <<batch_id, x, y, reserved>>: the records of a cell of
\* the grid (batch 0), and the records with one field off: another batch, x
\* just past the right edge, y just past the bottom edge.
InGridCells == {<<x, y>> : x \in 0..(FEATURE_W - 1), y \in 0..(FEATURE_H - 1)}
CoordRecords ==
    {<<0, c[1], c[2], 0>> : c \in InGridCells}
    \cup {<<1, c[1], c[2], 0>> : c \in InGridCells}
    \cup {<<0, FEATURE_W, y, 0>> : y \in 0..(FEATURE_H - 1)}
    \cup {<<0, x, FEATURE_H, 0>> : x \in 0..(FEATURE_W - 1)}
CoordTables(n) == UNION {[1..k -> CoordRecords] : k \in 0..n}

\* Grid pairs that differ in at most one element: 2.0 against 0 (beyond the
\* tolerance 1/4), 2.0 against 3.0 (within 1/4 + 1/4*3.0) and 3.0 against 2.0
\* (beyond 1/4 + 1/4*2.0).
NearPairs ==
    {<<Zeros(NumElements), Zeros(NumElements)>>}
    \cup {<<OneHot(NumElements, p, v[1]), OneHot(NumElements, p, v[2])>> :
             p \in 1..NumElements,
             v \in {<<Two, 0>>, <<Two, Three>>, <<Three, Two>>}}

\* compare_arrays on two grids of the canonical shape and no coordinates.
FullInputs ==
    /\ debug_coords = None
    /\ tolerance \in Tolerances
    /\ arr1 \in {NdArray(GridShape, d) : d \in SparseBuffers(NumElements, Vals)}
    /\ arr2 \in {NdArray(GridShape, d) : d \in SparseBuffers(NumElements, Vals)}

\* compare_arrays on two grids of the canonical shape and a coordinate table.
RestrictedInputs ==
    /\ debug_coords \in {Some(t) : t \in CoordTables(MaxCoords)}
    /\ tolerance = <<1, 4>>
    /\ \E pr \in NearPairs :
          /\ arr1 = NdArray(GridShape, pr[1])
          /\ arr2 = NdArray(GridShape, pr[2])

\* Buffers of 2.0 whose first k elements are 2.0 or 3.0.
DenseBuffers(k) ==
    {[i \in 1..NumElements |-> IF i <= k THEN f[i] ELSE Two] :
        f \in [1..k -> {Two, Three}]}

\* compare_arrays on two grids that differ in many elements, some within the
\* tolerance 1/4 of the combined rule (2.0 against 3.0) and some beyond it
\* (3.0 against 2.0), and no coordinates.
DenseInputs ==
    /\ debug_coords = None
    /\ tolerance = <<1, 4>>
    /\ arr1 \in {NdArray(GridShape, d) : d \in DenseBuffers(NumElements)}
    /\ arr2 \in {NdArray(GridShape, d) : d \in DenseBuffers(NumElements \div 2)}

\* compare_arrays on arrays of other shapes: flat, channel-first, mixed.
ShapeInputs ==
    /\ debug_coords \in {None, Some(<< <<0, 0, 0, 0>> >>)}
    /\ tolerance = DefaultTolerance
    /\ \E s1, s2 \in {GridShape, NchwShape, <<NumElements>>} :
          /\ <<s1, s2>> # <<GridShape, GridShape>>
          /\ arr1 \in {NdArray(s1, d) : d \in SparseBuffers(NumElements, {4})}
          /\ arr2 \in {NdArray(s2, d) : d \in SparseBuffers(NumElements, {4})}

\* ------------------------------------------------------------------ compare_arrays as a step
InitCompare ==
    /\ pc = "compare_arrays"
    /\ FullInputs \/ RestrictedInputs \/ ShapeInputs \/ DenseInputs
    /\ result = NoResult
    /\ output_file = NoFile /\ correct_file = NoFile /\ coords_file = NoFile
    /\ coords_data = None /\ output_data = NoArray /\ correct_data = NoArray
    /\ exit_code = -1
    /\ feature_file = NoFile /\ format_type = "" /\ features = NoFeatures

CompareArrays ==
    /\ pc = "compare_arrays"
    /\ result' = compare_arrays(arr1, arr2, tolerance, debug_coords)
    /\ pc' = "compare_arrays_returned"
    /\ UNCHANGED <<mainVars, compareVars, loadVars>>

NextCompare == CompareArrays

SpecCompare == InitCompare /\ [][NextCompare]_vars

\* ------------------------------------------------------------------ main
\* A loader that returns an empty table, not None, for an absent file.
load_coords_fileEmptyWhenAbsent(f) ==
    IF ~f.exists THEN Some(<<>>)
    ELSE IF Len(f.data) % 4 # 0 THEN None
    ELSE Some([k \in 1..(Len(f.data) \div 4) |->
                 <<f.data[4 * k - 3], f.data[4 * k - 2],
                   f.data[4 * k - 1], f.data[4 * k]>>])

\* load_coords_file: None when the file is absent (48-50) and when
\* reshape(-1, 4) raises on a word count that is no multiple of 4, which the
\* except clause turns into None as well (56-58); else the rows of 4 words.
load_coords_file(f) ==
    IF ~f.exists THEN None
    ELSE IF Len(f.data) % 4 # 0 THEN None
    ELSE Some([k \in 1..(Len(f.data) \div 4) |->
                 <<f.data[4 * k - 3], f.data[4 * k - 2],
                   f.data[4 * k - 1], f.data[4 * k]>>])

\* load_binary_file: the file's elements as a 1-D array.
load_binary_file(f) == NdArray(<<Len(f.data)>>, f.data)

\* get_file_md5: two digests are equal exactly when the contents are, so
\* the digest is the content.
get_file_md5(f) == f.data

\* The words of a coordinate table, record after record.
RECURSIVE Flatten(_)
Flatten(rows) == IF rows = <<>> THEN <<>> ELSE Head(rows) \o Flatten(Tail(rows))

\* Output and reference files: absent, or H*W*C elements with at most one
\* of them 1 or 4 units, or one element more or one element less than that.
GridFiles ==
    {NoFile}
    \cup {File(d) : d \in SparseBuffers(NumElements, {1, 4})}
    \cup {File(d) : d \in SparseBuffers(NumElements + 1, {4})}
    \cup {File(d) : d \in SparseBuffers(NumElements - 1, {4})}

\* Coordinate files: absent, the words of a table, or those words and one
\* more (a word count that is no multiple of 4).
CoordFiles ==
    {NoFile}
    \cup {File(Flatten(t) \o extra) :
             t \in CoordTables(MaxFileCoords), extra \in {<<>>, <<0>>}}

Init ==
    /\ pc = "main"
    /\ output_file \in GridFiles
    /\ correct_file \in GridFiles
    /\ coords_file \in CoordFiles
    /\ coords_data = None /\ output_data = NoArray /\ correct_data = NoArray
    /\ exit_code = -1
    /\ arr1 = NoArray /\ arr2 = NoArray /\ tolerance = DefaultTolerance
    /\ debug_coords = None
    /\ result = NoResult
    /\ feature_file = NoFile /\ format_type = "" /\ features = NoFeatures

\* check.py:334-347: <<output_data, correct_data>> after the reshaping.  The
\* output is reshaped as NHWC and the reference as NCHW and transposed to
\* NHWC when the output has the expected length; else both stay 1-D.
Canonicalize(out, ref) ==
    IF out.shape[1] = NumElements
    THEN <<reshape(out.data, GridShape),
           transpose(reshape(ref.data, NchwShape), <<1, 3, 4, 2>>)>>
    ELSE <<out, ref>>

\* check.py:276-284
CheckFilesExist ==
    /\ pc = "main"
    /\ IF ~output_file.exists \/ ~correct_file.exists
       THEN pc' = "exit" /\ exit_code' = 1
       ELSE pc' = "load_coords" /\ UNCHANGED exit_code
    /\ UNCHANGED <<output_file, correct_file, coords_file, coords_data,
                   output_data, correct_data, result, compareVars, loadVars>>

\* check.py:286-296
LoadCoords ==
    /\ pc = "load_coords"
    /\ coords_data' = IF DEBUG_MODE THEN load_coords_file(coords_file) ELSE None
    /\ pc' = "check_size"
    /\ UNCHANGED <<output_file, correct_file, coords_file, output_data,
                   correct_data, exit_code, result, compareVars, loadVars>>

\* check.py:298-319
CheckSizeAndMd5 ==
    /\ pc = "check_size"
    /\ IF Len(output_file.data) # Len(correct_file.data)
       THEN pc' = "exit" /\ exit_code' = 1
       ELSE IF get_file_md5(output_file) = get_file_md5(correct_file)
       THEN pc' = "exit" /\ exit_code' = 0
       ELSE pc' = "load_data" /\ UNCHANGED exit_code
    /\ UNCHANGED <<output_file, correct_file, coords_file, coords_data,
                   output_data, correct_data, result, compareVars, loadVars>>

\* check.py:326-347
LoadData ==
    /\ pc = "load_data"
    /\ LET loaded == Canonicalize(load_binary_file(output_file),
                                  load_binary_file(correct_file))
       IN  output_data' = loaded[1] /\ correct_data' = loaded[2]
    /\ pc' = "compare"
    /\ UNCHANGED <<output_file, correct_file, coords_file, coords_data,
                   exit_code, result, compareVars, loadVars>>

\* check.py:349-367: an exception of compare_arrays is caught nowhere, and
\* the interpreter exits with status 1.
CompareAndReport ==
    /\ pc = "compare"
    /\ result' = compare_arrays(output_data, correct_data, DefaultTolerance,
                                coords_data)
    /\ exit_code' = IF result'.raised THEN 1
                    ELSE IF result'.ret THEN 0 ELSE 1
    /\ pc' = "exit"
    /\ UNCHANGED <<output_file, correct_file, coords_file, coords_data,
                   output_data, correct_data, compareVars, loadVars>>

Next ==
    \/ CheckFilesExist
    \/ LoadCoords
    \/ CheckSizeAndMd5
    \/ LoadData
    \/ CompareAndReport

Spec == Init /\ [][Next]_vars

\* ------------------------------------------------------------------ check_visual.py
\* ndarray.astype(np.float32) of float16 elements: every float16 value is a
\* float32 value, so each element keeps its value.
astype_float32(arr) == NdArray(arr.shape, [i \in 1..Len(arr.data) |-> arr.data[i]])

\* FeatureVisualizer.load_feature_map: raised names the exception, "" when
\* the call returned array.
load_feature_map(f, fmt) ==
    IF ~f.exists THEN [raised |-> "FileNotFoundError", array |-> NoArray]
    ELSE IF Len(f.data) < NumElements
    THEN [raised |-> "ValueError", array |-> NoArray]
    ELSE LET d == SubSeq(f.data, 1, NumElements)
         IN  IF fmt = "NHWC"
             THEN [raised |-> "",
                   array |-> astype_float32(reshape(d, GridShape))]
             ELSE IF fmt = "NCHW"
             THEN [raised |-> "",
                   array |-> astype_float32(
                       transpose(reshape(d, NchwShape), <<1, 3, 4, 2>>))]
             ELSE [raised |-> "ValueError", array |-> NoArray]

\* Buffers of distinct elements, of zeros and ones, and of other lengths.
Ramp(n) == [i \in 1..n |-> i]
FeatureBuffers ==
    [1..NumElements -> {0, 1}]
    \cup {Ramp(NumElements - 1), Ramp(NumElements), Ramp(NumElements + 1)}
    \cup SparseBuffers(NumElements - 1, {1})
    \cup SparseBuffers(NumElements + 1, {1})

InitNormalize ==
    /\ pc = "load_feature_map"
    /\ feature_file \in {NoFile} \cup {File(d) : d \in FeatureBuffers}
    /\ format_type \in {"NHWC", "NCHW", "NWHC"}
    /\ features = NoFeatures
    /\ output_file = NoFile /\ correct_file = NoFile /\ coords_file = NoFile
    /\ coords_data = None /\ output_data = NoArray /\ correct_data = NoArray
    /\ exit_code = -1
    /\ arr1 = NoArray /\ arr2 = NoArray /\ tolerance = DefaultTolerance
    /\ debug_coords = None
    /\ result = NoResult

\* check_visual.py:90-125
LoadFeatureMap ==
    /\ pc = "load_feature_map"
    /\ features' = load_feature_map(feature_file, format_type)
    /\ pc' = "canonicalize"
    /\ UNCHANGED <<mainVars, compareVars, result, feature_file, format_type>>

\* check.py:326-347 on the same buffer, read as the output and as the
\* reference.
CanonicalizeBoth ==
    /\ pc = "canonicalize"
    /\ feature_file.exists
    /\ LET loaded == Canonicalize(load_binary_file(feature_file),
                                  load_binary_file(feature_file))
       IN  output_data' = loaded[1] /\ correct_data' = loaded[2]
    /\ pc' = "normalized"
    /\ UNCHANGED <<output_file, correct_file, coords_file, coords_data,
                   exit_code, compareVars, result, loadVars>>

NextNormalize == LoadFeatureMap \/ CanonicalizeBoth

SpecNormalize == InitNormalize /\ [][NextNormalize]_vars

\* ------------------------------------------------------------------ properties of compare_arrays
Returned == pc = "compare_arrays_returned"

\* The combined tolerance rule |a-b| <= abs_tol + rel_tol*|b| with both
\* tolerances n/d; no comparison with NaN holds.
WithinTolerance(a, b, tol) ==
    a # NaN /\ b # NaN
    /\ ~(Abs(a - b) > (tol[1] * (ValueScale + Abs(b))) \div tol[2])

\* Element (y, x, c) of a canonical grid, 0-based.
At(arr, y, x, c) == arr.data[(y * FEATURE_W + x) * FEATURE_SIZE + c + 1]

IsGrid(arr) == arr.shape = GridShape

\* The 1-based positions of the table's records that are inside the
\* truncation window and eligible for a grid of height H and width W.
EligibleRecords(coords) ==
    {i \in 1..Len(coords.rows) :
        /\ i - 1 < DEBUG_MAX_PILLARS
        /\ coords.rows[i][1] = 0
        /\ coords.rows[i][2] < FEATURE_W
        /\ coords.rows[i][3] < FEATURE_H}

EligibleCells(coords) ==
    {<<coords.rows[i][3], coords.rows[i][2]>> : i \in EligibleRecords(coords)}

CellWithinTolerance(a, b, y, x, tol) ==
    \A c \in 0..(FEATURE_SIZE - 1) :
        WithinTolerance(At(a, y, x, c), At(b, y, x, c), tol)

MatchedRecords(a, b, coords, tol) ==
    {i \in EligibleRecords(coords) :
        CellWithinTolerance(a, b, coords.rows[i][3], coords.rows[i][2], tol)}

AllWithinTolerance(a, b, tol) ==
    \A i \in 1..Len(a.data) : WithinTolerance(a.data[i], b.data[i], tol)

\* C1: in restricted comparison the call passes if and only if
\* matched == checked and checked > 0; with no eligible record it does not
\* pass.
C1_RestrictedPassIffMatchedAllAndSome ==
    (Returned /\ result.restricted) =>
        (result.ret <=> (result.match_count = result.total_checked
                         /\ result.total_checked > 0))

\* C2: with a coordinate table and two grids of the same shape, the returned
\* bool equals the restricted verdict matched == checked: the exact and
\* tolerance checks that follow a failing coordinate loop never pass, and a
\* passing coordinate loop is never followed by a fail.
C2_OutcomeIsRestrictedVerdict ==
    (Returned /\ ~debug_coords.isNone /\ IsGrid(arr1) /\ IsGrid(arr2)) =>
        /\ result.restricted /\ ~result.raised
        /\ result.ret <=> (result.match_count = result.total_checked)
        /\ (result.match_count # result.total_checked) => (result.full /\ ~result.ret)

\* C2 witness: the coordinate loop failed on a cell that the tolerance rule
\* rejects although its elements differ, and the checks that followed it
\* were evaluated.
C2_Witness ==
    /\ Returned /\ result.restricted /\ result.full
    /\ result.match_count < result.total_checked
    /\ tolerance = <<1, 4>>
    /\ \E i \in 1..Len(arr1.data) : arr1.data[i] = Three /\ arr2.data[i] = Two

\* C4: checked is the number of records (duplicates counted) below the
\* truncation window with batch_id == 0, x < W and y < H; matched is the
\* number of those whose cell satisfies the tolerance rule in every channel.
C4_CheckedAndMatchedCounts ==
    (Returned /\ result.restricted /\ IsGrid(arr1)) =>
        /\ result.total_checked = Cardinality(EligibleRecords(debug_coords))
        /\ result.match_count
              = Cardinality(MatchedRecords(arr1, arr2, debug_coords, tolerance))

\* C4 witness: a table longer than the window whose window holds the same
\* eligible record twice, on a cell that differs in one channel only, and
\* whose record past the window is eligible too.
C4_Witness ==
    /\ Returned /\ result.restricted /\ IsGrid(arr1)
    /\ Len(debug_coords.rows) = 3
    /\ debug_coords.rows[1] = <<0, 1, 0, 0>>
    /\ debug_coords.rows[2] = <<0, 1, 0, 0>>
    /\ debug_coords.rows[3] = <<0, 0, 1, 0>>
    /\ At(arr1, 0, 1, 0) = At(arr2, 0, 1, 0)
    /\ At(arr1, 0, 1, 1) = Two /\ At(arr2, 0, 1, 1) = 0
    /\ result.total_checked = 2 /\ result.match_count = 0

\* The grid with every cell that no eligible record addresses set to zero.
Masked(arr, coords) ==
    NdArray(arr.shape,
        [f \in 1..Len(arr.data) |->
            LET idx == Unravel4(arr.shape, f - 1)
            IN  IF <<idx[2], idx[3]>> \in EligibleCells(coords)
                THEN arr.data[f] ELSE 0])

\* C5: checked, matched and the returned bool depend only on the cells that
\* eligible records address: they are those of the two grids with all other
\* cells zeroed, so two grid pairs that agree on the eligible cells get the
\* same three values.
C5_BlindOutsideEligibleCells ==
    (Returned /\ result.restricted /\ IsGrid(arr1)) =>
        LET masked == compare_arrays(Masked(arr1, debug_coords),
                                     Masked(arr2, debug_coords),
                                     tolerance, debug_coords)
        IN  /\ result.total_checked = masked.total_checked
            /\ result.match_count = masked.match_count
            /\ result.ret = masked.ret

\* C5 witness: a pass although a cell outside the eligible set differs
\* beyond tolerance.
C5_Witness ==
    /\ Returned /\ result.restricted /\ IsGrid(arr1)
    /\ result.ret /\ result.total_checked > 0
    /\ ~AllWithinTolerance(arr1, arr2, tolerance)

\* C6: without a coordinate table, two grids of the same shape pass if and
\* only if every element pair satisfies |a-b| <= abs_tol + rel_tol*|b|.
C6_FullPassIffAllWithinTolerance ==
    (Returned /\ debug_coords.isNone /\ IsGrid(arr1) /\ IsGrid(arr2)) =>
        /\ ~result.restricted /\ result.full
        /\ result.ret <=> AllWithinTolerance(arr1, arr2, tolerance)

\* C6 witness: a pass by tolerance of two grids that are not equal, where
\* the rule with |a| in place of |b| would fail.
C6_Witness ==
    /\ Returned /\ debug_coords.isNone /\ IsGrid(arr1) /\ IsGrid(arr2)
    /\ result.ret /\ result.tolerant
    /\ \E i \in 1..Len(arr1.data) :
          /\ arr1.data[i] # arr2.data[i]
          /\ ~WithinTolerance(arr2.data[i], arr1.data[i], tolerance)

\* C7: when the shapes differ the call returns False at once: no debug
\* analysis, no statistics or differences, no coordinate counting, no exact
\* or tolerance check, with or without a coordinate table.
C7_ShapeMismatchFailsWithoutNumericWork ==
    (Returned /\ arr1.shape # arr2.shape) =>
        /\ ~result.ret /\ ~result.raised /\ ~result.shape_match
        /\ ~result.analyzed /\ ~result.stats
        /\ ~result.restricted /\ ~result.full
        /\ result.total_checked = 0 /\ result.match_count = 0
        /\ result.diff_count = 0

\* C7 witness: a shape mismatch with a coordinate table supplied and equal
\* element sequences.
C7_Witness ==
    /\ Returned /\ arr1.shape # arr2.shape
    /\ ~debug_coords.isNone /\ arr1.data = arr2.data
    /\ ~result.ret

\* Order of two tolerances n/d.
ToleranceLeq(t1, t2) == t1[1] * t2[2] <= t2[1] * t1[2]

\* C12: tolerance monotonicity.  For two grids of the same shape compared
\* without coordinates: if all elements are close under (rtol, atol) they
\* are close under every rtol' >= rtol and atol' >= atol; and a call that
\* passes with its tolerance passes with every larger tolerance.
C12_ToleranceMonotone ==
    (Returned /\ debug_coords.isNone /\ IsGrid(arr1) /\ IsGrid(arr2)) =>
        /\ \A rtol, atol, rtol2, atol2 \in Tolerances :
              (/\ ToleranceLeq(rtol, rtol2) /\ ToleranceLeq(atol, atol2)
               /\ allclose(arr1.data, arr2.data, rtol, atol))
                  => allclose(arr1.data, arr2.data, rtol2, atol2)
        /\ \A tol2 \in Tolerances :
              (ToleranceLeq(tolerance, tol2) /\ result.ret)
                  => compare_arrays(arr1, arr2, tol2, debug_coords).ret

\* C12 witness: a pass by tolerance 1/4 of two grids that are not close
\* under the default tolerance, with a larger tolerance left to try.
C12_Witness ==
    /\ Returned /\ debug_coords.isNone /\ IsGrid(arr1) /\ IsGrid(arr2)
    /\ result.tolerant /\ tolerance = <<1, 4>>
    /\ ~allclose(arr1.data, arr2.data, DefaultTolerance, DefaultTolerance)
    /\ allclose(arr1.data, arr2.data, <<0, 1>>, <<1, 2>>)

\* C13: comparing a grid with itself without coordinates, under any
\* tolerance, reports exact equality and passes, and the maximum and the
\* mean absolute difference are 0.
C13_SelfComparisonIsExact ==
    (Returned /\ debug_coords.isNone /\ IsGrid(arr1) /\ arr1 = arr2) =>
        /\ result.full /\ result.exact /\ result.ret
        /\ result.max_diff = 0 /\ result.mean_diff = 0

\* The flat positions (1-based) whose element pair exceeds the combined
\* rule, |a-b| > abs_tol + rel_tol*|b|; no comparison with NaN holds.
ExceedsCombined(a, b, tol) ==
    a # NaN /\ b # NaN
    /\ Abs(a - b) > (tol[1] * (ValueScale + Abs(b))) \div tol[2]

ExceedingPositions(a, b, tol) ==
    {i \in 1..Len(a.data) : ExceedsCombined(a.data[i], b.data[i], tol)}

\* The k-th smallest element of a finite set of numbers.
KthSmallest(S, k) ==
    CHOOSE x \in S : Cardinality({y \in S : y < x}) = k - 1

\* C14: when a full comparison is neither exact nor tolerant, the reported
\* mismatch count is the number of positions that exceed the combined rule,
\* it is at least 1, and the listed lines are those of the first
\* min(MaxShown, count) such positions in row-major order, each with the
\* position, both values and their difference.
C14_MismatchReportFollowsCombinedRule ==
    (Returned /\ debug_coords.isNone /\ IsGrid(arr1) /\ IsGrid(arr2)
        /\ result.full /\ ~result.exact /\ ~result.tolerant) =>
        LET exceeding == ExceedingPositions(arr1, arr2, tolerance)
            count == Cardinality(exceeding)
        IN  /\ result.diff_count = count
            /\ result.diff_count >= 1
            /\ Len(result.shown) = Min(MaxShown, count)
            /\ \A k \in 1..Len(result.shown) :
                  LET f == KthSmallest(exceeding, k)
                  IN  result.shown[k]
                        = <<Unravel4(GridShape, f - 1), arr1.data[f], arr2.data[f],
                            Abs(arr1.data[f] - arr2.data[f])>>

\* ------------------------------------------------------------------ properties of main
Exited == pc = "exit"

ExpectedLength(f) == f.exists /\ Len(f.data) = NumElements

MalformedCoords == coords_file.exists /\ Len(coords_file.data) % 4 # 0

\* The canonical (channel-last) views of the two files: element (y, x, c) of
\* the output is at (y*W + x)*C + c of its buffer, element (y, x, c) of the
\* reference at c*H*W + y*W + x of its buffer.
ChannelLastView(buf) == NdArray(GridShape, buf)
ChannelFirstView(buf) ==
    NdArray(GridShape,
        [f \in 1..NumElements |->
            LET idx == Unravel4(GridShape, f - 1)
            IN  buf[idx[4] * FEATURE_H * FEATURE_W
                    + idx[2] * FEATURE_W + idx[3] + 1]])

\* C3: a run on files of the expected length that ends in a pass (exit code
\* 0) is a run where the comparison of the canonical channel-last views of
\* the two grids passes; byte-identical files whose logical grids differ do
\* not pass.
C3_PassDecidedOnCanonicalViews ==
    (Exited /\ exit_code = 0
        /\ ExpectedLength(output_file) /\ ExpectedLength(correct_file)) =>
        compare_arrays(ChannelLastView(output_file.data),
                       ChannelFirstView(correct_file.data),
                       DefaultTolerance, coords_data).ret

\* C8: a run that loaded a malformed coordinate stream (a word count that is
\* no multiple of 4) and went on to compare the grids does not pass.
C8_MalformedCoordsNeverPass ==
    (Exited /\ MalformedCoords /\ result.called) => exit_code = 1

GridFilesPresent == ExpectedLength(output_file) /\ ExpectedLength(correct_file)

\* The comparison that is authoritative for the run, on the canonical views
\* of the two files, finds an element pair outside the default tolerance:
\* with a coordinate table, in a cell that an eligible record addresses;
\* without one, anywhere.
AuthoritativeMismatch ==
    /\ GridFilesPresent
    /\ LET a == ChannelLastView(output_file.data)
           b == ChannelFirstView(correct_file.data)
           coords == load_coords_file(coords_file)
       IN  IF coords.isNone
           THEN ~AllWithinTolerance(a, b, DefaultTolerance)
           ELSE MatchedRecords(a, b, coords, DefaultTolerance)
                    # EligibleRecords(coords)

\* C11: a finished run has exit code 0 or 1.  It is 1 when the output file
\* or the reference file is missing or the two differ in size, and then no
\* grid was loaded and nothing was compared; it is 1 when the compared arrays
\* differ in shape; it is 1 when the authoritative comparison of the two
\* grids finds an element pair outside tolerance.  It is 0 only when none of
\* these holds.
C11_ExitCodeReflectsVerification ==
    Exited =>
        /\ exit_code \in {0, 1}
        /\ (~output_file.exists \/ ~correct_file.exists
               \/ Len(output_file.data) # Len(correct_file.data)) =>
              /\ exit_code = 1
              /\ output_data = NoArray /\ correct_data = NoArray
              /\ ~result.called
        /\ (result.called /\ ~result.shape_match) => exit_code = 1
        /\ AuthoritativeMismatch => exit_code = 1
        /\ exit_code = 0 =>
              /\ output_file.exists /\ correct_file.exists
              /\ Len(output_file.data) = Len(correct_file.data)
              /\ ~AuthoritativeMismatch

\* ------------------------------------------------------------------ properties of the normalization
Loaded == pc \in {"canonicalize", "normalized"} /\ features.raised = ""

\* The channel-first buffer of a channel-last buffer: the inverse transform.
ChannelFirstEquivalent(buf) ==
    [i \in 1..NumElements |->
        LET c == (i - 1) \div (FEATURE_H * FEATURE_W)
            y == ((i - 1) % (FEATURE_H * FEATURE_W)) \div FEATURE_W
            x == (i - 1) % FEATURE_W
        IN  buf[(y * FEATURE_W + x) * FEATURE_SIZE + c + 1]]

GridPositions ==
    (0..(FEATURE_H - 1)) \X (0..(FEATURE_W - 1)) \X (0..(FEATURE_SIZE - 1))

\* C10: normalization is a re-indexing.  A channel_first buffer yields
\* canonical[0,y,x,c] == buffer[c*H*W + y*W + x], a channel_last buffer
\* canonical[0,y,x,c] == buffer[(y*W + x)*C + c], in load_feature_map and
\* in main alike; a channel_last buffer and its channel_first equivalent
\* yield the same canonical grid.
C10_NormalizationIsReindexing ==
    /\ Loaded =>
          /\ features.array.shape = GridShape
          /\ Len(features.array.data) = NumElements
          /\ \A p \in GridPositions :
                At(features.array, p[1], p[2], p[3])
                  = feature_file.data[
                        IF format_type = "NCHW"
                        THEN p[3] * FEATURE_H * FEATURE_W + p[1] * FEATURE_W + p[2] + 1
                        ELSE (p[1] * FEATURE_W + p[2]) * FEATURE_SIZE + p[3] + 1]
          /\ format_type = "NHWC" =>
                features.array
                  = load_feature_map(
                        File(ChannelFirstEquivalent(feature_file.data)), "NCHW").array
    /\ (pc = "normalized" /\ Len(feature_file.data) = NumElements) =>
          /\ output_data.shape = GridShape /\ correct_data.shape = GridShape
          /\ \A p \in GridPositions :
                /\ At(output_data, p[1], p[2], p[3])
                     = feature_file.data[
                           (p[1] * FEATURE_W + p[2]) * FEATURE_SIZE + p[3] + 1]
                /\ At(correct_data, p[1], p[2], p[3])
                     = feature_file.data[
                           p[3] * FEATURE_H * FEATURE_W + p[1] * FEATURE_W + p[2] + 1]

\* C10 witness: a channel_first buffer of H*W*C distinct elements was
\* normalized by load_feature_map and by main.
C10_Witness ==
    /\ pc = "normalized" /\ features.raised = ""
    /\ format_type = "NCHW"
    /\ feature_file.data = Ramp(NumElements)
    /\ features.array # NdArray(GridShape, feature_file.data)


\* ------------------------------------------------------------------ properties of loading
\* C15: a buffer longer than H*W*C is cut to its first H*W*C elements and
\* loads without error; a shorter one fails to load and yields no grid; and
\* what reaches the comparison comes from buffers of at least H*W*C elements
\* and is a pair of (1, H, W, C) grids holding the first H*W*C elements of
\* each.
C15_UnexpectedLengthHandled ==
    /\ (pc \in {"canonicalize", "normalized"} /\ feature_file.exists) =>
          /\ Len(feature_file.data) < NumElements =>
                features.raised = "ValueError" /\ features.array = NoArray
          /\ (Len(feature_file.data) > NumElements
                 /\ format_type \in {"NHWC", "NCHW"}) =>
                /\ features.raised = ""
                /\ features.array
                     = load_feature_map(
                           File(SubSeq(feature_file.data, 1, NumElements)),
                           format_type).array
                /\ features.array.shape = GridShape
                /\ Len(features.array.data) = NumElements
    /\ result.called =>
          /\ Len(output_file.data) >= NumElements
          /\ Len(correct_file.data) >= NumElements
          /\ output_data
               = ChannelLastView(SubSeq(output_file.data, 1, NumElements))
          /\ correct_data
               = ChannelFirstView(SubSeq(correct_file.data, 1, NumElements))

====
